---------------------------- MODULE Spec2Model ----------------------------
(***************************************************************************)
(* Force-plate decision grid: the trend-detection and severity-            *)
(* classification engine of demo_report.py, generate_real_report.py,       *)
(* generate_report_app.py, generate_html_report.py,                        *)
(* generate_training_report.py and force_plate_dashboard.py.               *)
(*                                                                         *)
(* Numbers.  The code computes in binary floating point.  The model keeps  *)
(* every comparison exact: a deviation is a rational num/den (or NaN), and *)
(* an SWC, which is 0.2 times a standard deviation and so in general       *)
(* irrational, is kept as the rational value of its square.  A comparison  *)
(* |deviation| > k * swc of two non-negative reals is decided on the       *)
(* squares.                                                                *)
(***************************************************************************)
EXTENDS Integers, Sequences, FiniteSets, TLC

VARIABLES
    call,               \* classifier call in progress: [fn, deviation, swc]
    ret,                \* tier returned by that call
    prev_call,          \* the call before it
    prev_ret,           \* and its tier
    variant,            \* the entry point that is running
    df,                 \* the reading table: a sequence of rows, in file order
    columns,            \* df.columns: the metric columns the table has
    baseline_days,      \* parameter of the rolling-window entry points
    locals,             \* athlete_data and the locals of the metric loop
    pc,                 \* position of categorize_athletes in its loops
    cat_idx,            \* position in DECISION_RULES.items()
    ath_idx,            \* position in athletes = df['Athlete_Name'].unique()
    category_athletes,  \* flagged athletes of the category being built
    flagged_categories, \* generate_report_app: categories of the athlete
    results,            \* results['categories']
    athlete_results,    \* generate_report_app: athlete_results
    summary,            \* athletes_flagged / categories_flagged
    rules,              \* the DECISION_RULES table of the entry point
    flagged_athletes,   \* generate_training_report: set of flagged names
    run,                \* 1 in the first run of the entry point, then 2
    first,              \* what the first run returned
    clock               \* the day, as datetime.now() would give it

clsVars == <<call, ret, prev_call, prev_ret>>

inVars == <<variant, df, columns, baseline_days, rules>>

loopVars == <<pc, cat_idx, ath_idx, category_athletes, flagged_categories,
              results, athlete_results, summary, flagged_athletes>>

runVars == <<run, first, clock>>

vars == <<call, ret, prev_call, prev_ret, variant, df, columns, baseline_days,
          locals, pc, cat_idx, ath_idx, category_athletes,
          flagged_categories, results, athlete_results, summary, rules,
          flagged_athletes, run, first, clock>>

-----------------------------------------------------------------------------
(* Bounds *)

MaxDev == 4        \* deviations are num/den with |num| <= MaxDev, den in 1..2
MaxSwc == 2        \* swc is an integer 0..MaxSwc
MaxWeekly == 10    \* longest history of weekly tests
MaxIrregular == 4  \* longest history of tests on arbitrary dates
NAthletes == 3     \* athletes of a roster

-----------------------------------------------------------------------------
(* Exact arithmetic *)

Abs(x) == IF x < 0 THEN -x ELSE x

\* float('nan') as a deviation
NaNDev == [nan |-> TRUE, num |-> 0, den |-> 1]

Rat(n, d) == [nan |-> FALSE, num |-> n, den |-> d]

\* an swc known as an integer s
SwcOfInt(s) == [sq_num |-> s * s, sq_den |-> 1]

\* deviation > (k10 / 10) * swc, the deviation taken with its sign
SignedGt(deviation, k10, swc) ==
    /\ ~deviation.nan
    /\ deviation.num * deviation.den > 0
    /\ deviation.num * deviation.num * 100 * swc.sq_den
         > k10 * k10 * swc.sq_num * deviation.den * deviation.den

\* abs(deviation) > (k10 / 10) * swc ; every comparison with NaN is False
AbsGt(deviation, k10, swc) ==
    /\ ~deviation.nan
    /\ deviation.num * deviation.num * 100 * swc.sq_den
         > k10 * k10 * swc.sq_num * deviation.den * deviation.den

\* abs(deviation) <= (k10 / 10) * swc ; every comparison with NaN is False
AbsLe(deviation, k10, swc) ==
    /\ ~deviation.nan
    /\ deviation.num * deviation.num * 100 * swc.sq_den
         <= k10 * k10 * swc.sq_num * deviation.den * deviation.den

\* abs(deviation) >= (k10 / 10) * swc
AbsGe(deviation, k10, swc) ==
    /\ ~deviation.nan
    /\ deviation.num * deviation.num * 100 * swc.sq_den
         >= k10 * k10 * swc.sq_num * deviation.den * deviation.den

\* abs(deviation) < (k10 / 10) * swc
AbsLt(deviation, k10, swc) ==
    /\ ~deviation.nan
    /\ deviation.num * deviation.num * 100 * swc.sq_den
         < k10 * k10 * swc.sq_num * deviation.den * deviation.den

-----------------------------------------------------------------------------
(* SeverityClassifier *)

\* multiples of SWC, in tenths
SEVERITY_THRESHOLDS == [red |-> 20, orange |-> 15, yellow |-> 10]

\* ">=" written for ">" in the first test
classify_severity_ge(deviation, swc) ==
    IF AbsGe(deviation, SEVERITY_THRESHOLDS.red, swc) THEN "critical"
    ELSE IF AbsGt(deviation, SEVERITY_THRESHOLDS.orange, swc) THEN "warning"
    ELSE IF AbsGt(deviation, SEVERITY_THRESHOLDS.yellow, swc) THEN "caution"
    ELSE "normal"

\* demo_report, generate_real_report, generate_report_app
classify_severity(deviation, swc) ==
    IF AbsGt(deviation, SEVERITY_THRESHOLDS.red, swc) THEN "critical"
    ELSE IF AbsGt(deviation, SEVERITY_THRESHOLDS.orange, swc) THEN "warning"
    ELSE IF AbsGt(deviation, SEVERITY_THRESHOLDS.yellow, swc) THEN "caution"
    ELSE "normal"

\* generate_html_report: the same chain with the literals 2, 1.5 and 1
html_classify_severity(deviation, swc) ==
    IF AbsGt(deviation, 20, swc) THEN "critical"
    ELSE IF AbsGt(deviation, 15, swc) THEN "warning"
    ELSE IF AbsGt(deviation, 10, swc) THEN "caution"
    ELSE "normal"

\* the labels of the two middle branches exchanged
get_severity_swapped(deviation, swc) ==
    IF AbsGt(deviation, SEVERITY_THRESHOLDS.red, swc) THEN "red"
    ELSE IF AbsGt(deviation, SEVERITY_THRESHOLDS.orange, swc) THEN "yellow"
    ELSE IF AbsGt(deviation, SEVERITY_THRESHOLDS.yellow, swc) THEN "orange"
    ELSE "green"

\* generate_training_report: colour codes for tiers
get_severity(deviation, swc) ==
    IF AbsGt(deviation, SEVERITY_THRESHOLDS.red, swc) THEN "red"
    ELSE IF AbsGt(deviation, SEVERITY_THRESHOLDS.orange, swc) THEN "orange"
    ELSE IF AbsGt(deviation, SEVERITY_THRESHOLDS.yellow, swc) THEN "yellow"
    ELSE "green"

\* "<" written for "<=" in the first test
Engine_classify_severity_lt(deviation, swc) ==
    IF AbsLt(deviation, 10, swc) THEN "green"
    ELSE IF AbsLe(deviation, 15, swc) THEN "yellow"
    ELSE IF AbsLe(deviation, 20, swc) THEN "orange"
    ELSE "red"

\* ForcePlateDecisionEngine.classify_severity: ascending "<=" chain
Engine_classify_severity(deviation, swc) ==
    IF AbsLe(deviation, 10, swc) THEN "green"
    ELSE IF AbsLe(deviation, 15, swc) THEN "yellow"
    ELSE IF AbsLe(deviation, 20, swc) THEN "orange"
    ELSE "red"

\* position of a tier in normal < caution < warning < critical
TierRank(tier) ==
    CASE tier \in {"normal", "green"} -> 0
      [] tier \in {"caution", "yellow"} -> 1
      [] tier \in {"warning", "orange"} -> 2
      [] tier \in {"critical", "red"} -> 3

-----------------------------------------------------------------------------
(* The reading table *)

\* a missing value (numpy NaN) in a metric column; readings are >= 0
NaN == -1

\* athlete_data[metric]: one column of a frame, in row order
Column(athlete_data, metric) ==
    [i \in 1..Len(athlete_data) |-> athlete_data[i].vals[metric]]

IsReading(v) == v # NaN

\* Series.dropna()
dropna(series) == SelectSeq(series, IsReading)

RECURSIVE Sum(_)
Sum(series) ==
    IF series = <<>> THEN 0 ELSE Head(series) + Sum(Tail(series))

RECURSIVE SumSq(_)
SumSq(series) ==
    IF series = <<>> THEN 0
    ELSE Head(series) * Head(series) + SumSq(Tail(series))

Remove(seq, i) == SubSeq(seq, 1, i - 1) \o SubSeq(seq, i + 1, Len(seq))

\* athlete_data['Date'].max()
MaxDate(rows) ==
    CHOOSE d \in {rows[i].Date : i \in 1..Len(rows)} :
        \A j \in 1..Len(rows) : rows[j].Date <= d

MinDate(rows) ==
    CHOOSE d \in {rows[i].Date : i \in 1..Len(rows)} :
        \A j \in 1..Len(rows) : d <= rows[j].Date

\* df[df['Athlete_Name'] == athlete]
RowsOf(frame, athlete) ==
    SelectSeq(frame, LAMBDA r : r.Athlete_Name = athlete)

\* DataFrame.sort_values('Date'): the default sort is not stable, so rows of
\* equal date may come out in any order; the result is one of these frames
RECURSIVE sort_values(_)
sort_values(rows) ==
    IF rows = <<>> THEN {<<>>}
    ELSE UNION { { <<rows[i]>> \o rest : rest \in sort_values(Remove(rows, i)) } :
                   i \in {k \in 1..Len(rows) : rows[k].Date = MinDate(rows)} }

-----------------------------------------------------------------------------
(* BaselineEstimator *)

\* Series.mean()
mean(series) == Rat(Sum(series), Len(series))

\* n * sum(x^2) - sum(x)^2 = n^2 * (population variance)
Spread(series) == Len(series) * SumSq(series) - Sum(series) * Sum(series)

\* demo_report.calculate_swc: 0.2 * np.std(data), divisor n
calculate_swc(data) ==
    [sq_num |-> Spread(data), sq_den |-> 25 * Len(data) * Len(data)]

\* generate_training_report.calculate_swc: 0.2 * Series.std(), divisor n - 1
training_calculate_swc(baseline_series) ==
    [sq_num |-> Spread(baseline_series),
     sq_den |-> 25 * Len(baseline_series) * (Len(baseline_series) - 1)]

\* baseline_mean - current
MeanMinus(series, current) ==
    IF current = NaN THEN NaNDev
    ELSE Rat(Sum(series) - Len(series) * current, Len(series))

\* current - baseline_mean
MinusMean(current, series) ==
    IF current = NaN THEN NaNDev
    ELSE Rat(Len(series) * current - Sum(series), Len(series))

\* the split taken at half of the series
split_half(n) == (n * 5) \div 10

\* int(len(metric_data) * 0.6); the float product truncates to
\* floor(6 * n / 10) for every length below 200000
split_point(n) == (n * 6) \div 10

-----------------------------------------------------------------------------
(* Rule tables *)

\* the categorize_athletes variants and the analysis loop of
\* generate_html_report
Variants ==
    {"demo_report", "generate_real_report", "generate_report_app",
     "generate_html_report", "generate_training_report"}

\* ForcePlateDecisionEngine.evaluate_athlete
Engine == "force_plate_dashboard"

\* demo_report.DECISION_RULES and generate_html_report.DECISION_RULES
demo_DECISION_RULES ==
    <<[metrics |-> <<"IMTP_Peak_Force", "Net_Peak_Vertical_Force">>,
       trend |-> "decrease"],
      [metrics |-> <<"IMTP_Force_50ms", "IMTP_Force_100ms", "IMTP_Force_200ms">>,
       trend |-> "decrease"],
      [metrics |-> <<"Peak_Power">>, trend |-> "decrease"],
      [metrics |-> <<"RSI_mod", "Eccentric_Braking_RFD">>, trend |-> "decrease"],
      [metrics |-> <<"Eccentric_Mean_Braking_Force">>, trend |-> "decrease"],
      [metrics |-> <<"Contraction_Time", "Time_to_Peak_Force">>,
       trend |-> "increase"],
      [metrics |-> <<"LR_Force_Asymmetry">>, trend |-> "absolute",
       threshold |-> 10]>>

\* generate_real_report.DECISION_RULES and generate_report_app.DECISION_RULES
real_DECISION_RULES ==
    <<[metrics |-> <<"IMTP_Peak_Force", "IMTP_Net_Peak_Force">>,
       trend |-> "decrease"],
      [metrics |-> <<"IMTP_Force_50ms", "IMTP_Force_100ms", "IMTP_Force_200ms">>,
       trend |-> "decrease"],
      [metrics |-> <<"CMJ_Peak_Power">>, trend |-> "decrease"],
      [metrics |-> <<"CMJ_RSI_modified", "CMJ_Eccentric_Braking_RFD">>,
       trend |-> "decrease"],
      [metrics |-> <<"CMJ_Eccentric_Mean_Braking_Force">>, trend |-> "decrease"],
      [metrics |-> <<"CMJ_Contraction_Time", "IMTP_Time_to_Peak_Force">>,
       trend |-> "increase"],
      [metrics |-> <<"IMTP_Asymmetry">>, trend |-> "absolute",
       threshold |-> 10]>>

\* generate_training_report.DECISION_RULES
training_DECISION_RULES ==
    <<[metrics |-> <<"IMTP_Peak_Force", "Net_Peak_Vertical_Force">>,
       trend |-> "decrease"],
      [metrics |-> <<"IMTP_Force_50ms", "IMTP_Force_100ms", "IMTP_Force_200ms">>,
       trend |-> "decrease"],
      [metrics |-> <<"Peak_Power">>, trend |-> "decrease"],
      [metrics |-> <<"RSI_mod", "Eccentric_Braking_RFD">>, trend |-> "decrease"],
      [metrics |-> <<"Eccentric_Mean_Braking_Force", "Eccentric_RFD">>,
       trend |-> "decrease"],
      [metrics |-> <<"Contraction_Time", "Time_to_Peak_Force">>,
       trend |-> "increase"],
      [metrics |-> <<"LR_Force_Asymmetry">>, trend |-> "increase",
       threshold_type |-> "absolute", threshold_value |-> 10]>>

\* ForcePlateDecisionEngine.DECISION_RULES
Engine_DECISION_RULES ==
    <<[metrics |-> <<"IMTP_Peak_Force", "Net_Peak_Vertical_Force">>,
       trend |-> "decrease"],
      [metrics |-> <<"IMTP_Force_50ms", "IMTP_Force_100ms", "IMTP_Force_200ms">>,
       trend |-> "decrease"],
      [metrics |-> <<"Peak_Power">>, trend |-> "decrease"],
      [metrics |-> <<"RSI_mod", "Eccentric_Braking_RFD">>, trend |-> "decrease"],
      [metrics |-> <<"Eccentric_Mean_Braking_Force", "Eccentric_RFD">>,
       trend |-> "decrease"],
      [metrics |-> <<"Contraction_Time", "Time_to_Peak_Force">>,
       trend |-> "increase"],
      [metrics |-> <<"LR_Force_Asymmetry">>, trend |-> "increase",
       threshold_type |-> "absolute", threshold_value |-> 10],
      [metrics |-> <<"Contraction_Time", "Jump_Height">>, trend |-> "cluster"],
      [metrics |-> <<"RSI_mod", "Peak_Power">>, trend |-> "cluster"]>>

DECISION_RULES(v) ==
    CASE v \in {"demo_report", "generate_html_report"} -> demo_DECISION_RULES
      [] v \in {"generate_real_report", "generate_report_app"} ->
             real_DECISION_RULES
      [] v = "generate_training_report" -> training_DECISION_RULES
      [] v = Engine -> Engine_DECISION_RULES

\* the record-count gate of generate_html_report
html_min_records == 4

\* the record-count gate of the categorize_athletes variants
min_records == 5

MinRecords(v) ==
    IF v = "generate_html_report" THEN html_min_records ELSE min_records

-----------------------------------------------------------------------------
(* One metric of one rule for one athlete: the body of the metric loop *)

NoSwc == SwcOfInt(0)

\* the loop leaves by "break" with all_flagged = False
Break(why, metric_data, baseline, current, cutoff) ==
    [brk |-> TRUE, why |-> why, severity |-> "none",
     metric_data |-> metric_data, baseline |-> baseline, current |-> current,
     cutoff |-> cutoff]

\* the loop goes on to the worst-severity update
Pass(severity, metric_data, baseline, current, cutoff) ==
    [brk |-> FALSE, why |-> "flag", severity |-> severity,
     metric_data |-> metric_data, baseline |-> baseline, current |-> current,
     cutoff |-> cutoff]

\* rule['threshold'] of a rule without that key: KeyError
Raise(metric_data, baseline, current) ==
    [brk |-> TRUE, why |-> "KeyError", severity |-> "none",
     metric_data |-> metric_data, baseline |-> baseline, current |-> current,
     cutoff |-> 0]

Classifier(v, deviation, swc) ==
    IF v = "generate_html_report" THEN html_classify_severity(deviation, swc)
    ELSE classify_severity(deviation, swc)

\* ">=" written for ">" in the threshold test
exceeds_threshold_ge(current, rule) == current >= rule.threshold

\* current > rule['threshold']
exceeds_threshold(current, rule) == current > rule.threshold

\* a baseline of one value is let through
baseline_too_short_lt1(baseline) == Len(baseline) < 1

\* len(baseline) < 2
baseline_too_short(baseline) == Len(baseline) < 2

\* demo_report, generate_real_report, generate_report_app and
\* generate_html_report: proportional split
check_metric(v, rule, athlete_data, cols, metric) ==
    IF metric \notin cols THEN Break("absent", <<>>, <<>>, NaN, 0)
    ELSE
    LET metric_data == dropna(Column(athlete_data, metric)) IN
    IF Len(metric_data) < 3 THEN Break("short", metric_data, <<>>, NaN, 0)
    ELSE
    LET split == split_point(Len(metric_data))
        baseline == SubSeq(metric_data, 1, split)
        current == metric_data[Len(metric_data)]
    IN
    IF baseline_too_short(baseline)
    THEN Break("no_baseline", metric_data, baseline, current, 0)
    ELSE
    LET swc == calculate_swc(baseline) IN
    IF rule.trend = "absolute"
    THEN IF "threshold" \notin DOMAIN rule
         THEN Raise(metric_data, baseline, current)
         ELSE IF exceeds_threshold(current, rule)
         THEN Pass("critical", metric_data, baseline, current, 0)
         ELSE Break("below", metric_data, baseline, current, 0)
    ELSE
    LET deviation == IF rule.trend = "decrease"
                     THEN MeanMinus(baseline, current)
                     ELSE MinusMean(current, baseline)
        severity == Classifier(v, deviation, swc)
    IN
    IF severity = "normal"
    THEN Break("normal", metric_data, baseline, current, 0)
    ELSE Pass(severity, metric_data, baseline, current, 0)

\* the window is counted back from the day of the run: datetime.now()
latest_date_now(athlete_data) == clock

\* athlete_data['Date'].max()
latest_date(athlete_data) == MaxDate(athlete_data)

\* the window test written with ">" for ">="
SinceCutoff_gt(athlete_data, cutoff_date) ==
    SelectSeq(athlete_data, LAMBDA r : r.Date > cutoff_date)

\* athlete_data[athlete_data['Date'] >= cutoff_date]
SinceCutoff(athlete_data, cutoff_date) ==
    SelectSeq(athlete_data, LAMBDA r : r.Date >= cutoff_date)

\* generate_training_report: rolling window by date
training_check_metric(rule, athlete_data, cols, metric, days) ==
    IF metric \notin cols THEN Break("absent", <<>>, <<>>, NaN, 0)
    ELSE
    LET cutoff_date == latest_date(athlete_data) - days
        baseline_data ==
            dropna(Column(SinceCutoff(athlete_data, cutoff_date), metric))
        metric_data == Column(athlete_data, metric)
    IN
    IF Len(baseline_data) < 3
    THEN Break("short", metric_data, baseline_data, NaN, cutoff_date)
    ELSE
    LET swc == training_calculate_swc(baseline_data)
        current_value == metric_data[Len(metric_data)]
    IN
    IF rule.trend \notin {"decrease", "increase"}
    THEN Break("trend", metric_data, baseline_data, current_value, cutoff_date)
    ELSE
    LET deviation == IF rule.trend = "decrease"
                     THEN MeanMinus(baseline_data, current_value)
                     ELSE MinusMean(current_value, baseline_data)
        severity_color == get_severity(deviation, swc)
    IN
    IF severity_color = "green"
    THEN Break("normal", metric_data, baseline_data, current_value, cutoff_date)
    ELSE Pass(severity_color, metric_data, baseline_data, current_value,
              cutoff_date)

\* ForcePlateDecisionEngine.calculate_swc: 0.2 * Series.std(), divisor n - 1
Engine_calculate_swc(baseline_data) ==
    [sq_num |-> Spread(baseline_data),
     sq_den |-> 25 * Len(baseline_data) * (Len(baseline_data) - 1)]

\* the two differences exchanged
Engine_deviation_swapped(rule, baseline_values, current_value) ==
    IF rule.trend = "decrease"
    THEN MinusMean(current_value, baseline_values)
    ELSE MeanMinus(baseline_values, current_value)

\* evaluate_athlete: baseline_mean - current_value for "decrease",
\* current_value - baseline_mean for "increase"
Engine_deviation(rule, baseline_values, current_value) ==
    IF rule.trend = "decrease"
    THEN MeanMinus(baseline_values, current_value)
    ELSE MinusMean(current_value, baseline_values)

\* ForcePlateDecisionEngine.evaluate_athlete, body of the metric loop; a
\* result with brk set stands for "continue": nothing is appended for the
\* metric and the loop goes on with the next one
Engine_check_metric(rule, athlete_data, cols, metric, days) ==
    LET cutoff_date == latest_date(athlete_data) - days
        baseline_data == SinceCutoff(athlete_data, cutoff_date)
        current_test == athlete_data[Len(athlete_data)]
    IN
    IF metric \notin cols THEN Break("absent", <<>>, <<>>, NaN, cutoff_date)
    ELSE
    LET baseline_values == dropna(Column(baseline_data, metric))
        metric_data == Column(athlete_data, metric)
    IN
    IF Len(baseline_values) < 3
    THEN Break("short", metric_data, baseline_values, NaN, cutoff_date)
    ELSE
    LET swc == Engine_calculate_swc(baseline_values)
        current_value == current_test.vals[metric]
    IN
    IF rule.trend \notin {"decrease", "increase"}
    THEN Break("cluster", metric_data, baseline_values, current_value,
               cutoff_date)
    ELSE
    LET deviation == Engine_deviation(rule, baseline_values, current_value)
        severity == Engine_classify_severity(deviation, swc)
    IN
    IF severity \in {"yellow", "orange", "red"}
    THEN Pass(severity, metric_data, baseline_values, current_value,
              cutoff_date)
    ELSE Break("normal", metric_data, baseline_values, current_value,
               cutoff_date)

CheckMetric(v, rule, athlete_data, cols, metric, days) ==
    CASE v = "generate_training_report" ->
             training_check_metric(rule, athlete_data, cols, metric, days)
      [] v = Engine ->
             Engine_check_metric(rule, athlete_data, cols, metric, days)
      [] OTHER -> check_metric(v, rule, athlete_data, cols, metric)

-----------------------------------------------------------------------------
(* The metric loop of one (athlete, rule) evaluation *)

sev_order == [critical |-> 0, warning |-> 1, caution |-> 2, normal |-> 3]

severity_scores == [red |-> 4, orange |-> 3, yellow |-> 2, green |-> 1]

\* the severity of the metric is stored without the comparison
TrackWorst_last(v, severity, worst_severity) == severity

\* the worst-severity update of the loop body
TrackWorst(v, severity, worst_severity) ==
    IF v = "generate_training_report"
    THEN IF severity_scores[severity] > severity_scores[worst_severity]
         THEN severity ELSE worst_severity
    ELSE IF sev_order[severity] < sev_order[worst_severity]
         THEN severity ELSE worst_severity

\* "break" is missing: the metrics after a failing one are checked as well
RECURSIVE metric_loop_no_break(_, _, _, _, _, _, _)
metric_loop_no_break(v, rule, athlete_data, cols, days, i, worst_severity) ==
    IF i > Len(rule.metrics)
    THEN [all_flagged |-> TRUE, worst_severity |-> worst_severity,
          checked |-> i - 1, raised |-> FALSE]
    ELSE
    LET c == CheckMetric(v, rule, athlete_data, cols, rule.metrics[i], days)
    IN
    IF c.brk
    THEN [all_flagged |-> FALSE, worst_severity |-> worst_severity,
          checked |-> Len(rule.metrics), raised |-> c.why = "KeyError"]
    ELSE metric_loop_no_break(v, rule, athlete_data, cols, days, i + 1,
                              TrackWorst(v, c.severity, worst_severity))

\* "all_flagged = False" is missing where a later metric leaves the loop
RECURSIVE metric_loop_keep(_, _, _, _, _, _, _)
metric_loop_keep(v, rule, athlete_data, cols, days, i, worst_severity) ==
    IF i > Len(rule.metrics)
    THEN [all_flagged |-> TRUE, worst_severity |-> worst_severity,
          checked |-> i - 1, raised |-> FALSE]
    ELSE
    LET c == CheckMetric(v, rule, athlete_data, cols, rule.metrics[i], days)
    IN
    IF c.brk
    THEN [all_flagged |-> i > 1, worst_severity |-> worst_severity,
          checked |-> i, raised |-> c.why = "KeyError"]
    ELSE metric_loop_keep(v, rule, athlete_data, cols, days, i + 1,
                          TrackWorst(v, c.severity, worst_severity))

\* for metric in rule['metrics']: ... , from the i-th metric on
RECURSIVE metric_loop(_, _, _, _, _, _, _)
metric_loop(v, rule, athlete_data, cols, days, i, worst_severity) ==
    IF i > Len(rule.metrics)
    THEN [all_flagged |-> TRUE, worst_severity |-> worst_severity,
          checked |-> i - 1, raised |-> FALSE]
    ELSE
    LET c == CheckMetric(v, rule, athlete_data, cols, rule.metrics[i], days)
    IN
    IF c.brk
    THEN [all_flagged |-> FALSE, worst_severity |-> worst_severity,
          checked |-> i, raised |-> c.why = "KeyError"]
    ELSE metric_loop(v, rule, athlete_data, cols, days, i + 1,
                     TrackWorst(v, c.severity, worst_severity))

\* "break" written for "continue": the first metric decides
Engine_metric_loop_break(rule, athlete_data, cols, days, i) ==
    LET c == Engine_check_metric(rule, athlete_data, cols, rule.metrics[i],
                                 days)
    IN [all_flagged |-> ~c.brk, worst_severity |-> c.severity,
        checked |-> i, raised |-> FALSE]

\* for metric in rule['metrics'] of evaluate_athlete: the first metric that
\* is yellow or worse appends the flag and ends the loop
RECURSIVE Engine_metric_loop(_, _, _, _, _)
Engine_metric_loop(rule, athlete_data, cols, days, i) ==
    IF i > Len(rule.metrics)
    THEN [all_flagged |-> FALSE, worst_severity |-> "green",
          checked |-> i - 1, raised |-> FALSE]
    ELSE
    LET c == Engine_check_metric(rule, athlete_data, cols, rule.metrics[i],
                                 days)
    IN
    IF c.brk
    THEN Engine_metric_loop(rule, athlete_data, cols, days, i + 1)
    ELSE [all_flagged |-> TRUE, worst_severity |-> c.severity, checked |-> i,
          raised |-> FALSE]

\* the metric loop without its "break"
EvaluateRule_no_break(v, rule, athlete_data, cols, days) ==
    CASE v = "generate_training_report" ->
             metric_loop_no_break(v, rule, athlete_data, cols, days, 1, "green")
      [] v = Engine -> Engine_metric_loop(rule, athlete_data, cols, days, 1)
      [] OTHER ->
             metric_loop_no_break(v, rule, athlete_data, cols, days, 1, "normal")

\* all_flagged / worst_severity after the metric loop
EvaluateRule(v, rule, athlete_data, cols, days) ==
    CASE v = "generate_training_report" ->
             metric_loop(v, rule, athlete_data, cols, days, 1, "green")
      [] v = Engine -> Engine_metric_loop(rule, athlete_data, cols, days, 1)
      [] OTHER -> metric_loop(v, rule, athlete_data, cols, days, 1, "normal")

-----------------------------------------------------------------------------
(* Values of the variables a specification does not use *)

NoCall == [fn |-> "none"]

NoLocals == [athlete_data |-> <<>>]

IdleClassifier ==
    /\ call = NoCall
    /\ ret = "none"
    /\ prev_call = NoCall
    /\ prev_ret = "none"

IdleRun ==
    /\ run = 1
    /\ first = <<>>
    /\ clock = 0

IdleLoop ==
    /\ IdleRun
    /\ flagged_athletes = {}
    /\ pc = "idle"
    /\ cat_idx = 0
    /\ ath_idx = 0
    /\ category_athletes = <<>>
    /\ flagged_categories = <<>>
    /\ results = <<>>
    /\ athlete_results = <<>>
    /\ summary = <<>>

-----------------------------------------------------------------------------
(* The classifiers on their own: every call draws a deviation and an swc *)

Classifiers ==
    {"classify_severity", "html_classify_severity", "get_severity",
     "Engine_classify_severity"}

Deviations ==
    {Rat(n, d) : n \in (-MaxDev)..MaxDev, d \in 1..2} \cup {NaNDev}

Apply(fn, deviation, swc) ==
    CASE fn = "classify_severity" -> classify_severity(deviation, swc)
      [] fn = "html_classify_severity" -> html_classify_severity(deviation, swc)
      [] fn = "get_severity" -> get_severity(deviation, swc)
      [] fn = "Engine_classify_severity" ->
             Engine_classify_severity(deviation, swc)

InitClassify ==
    /\ IdleClassifier
    /\ variant = "none"
    /\ df = <<>>
    /\ columns = {}
    /\ baseline_days = 0
    /\ rules = <<>>
    /\ locals = NoLocals
    /\ IdleLoop

\* a call with fresh arguments
FirstCall(fn, deviation, s) ==
    /\ call = NoCall
    /\ call' = [fn |-> fn, deviation |-> deviation, swc |-> s]
    /\ ret' = Apply(fn, deviation, SwcOfInt(s))
    /\ prev_call' = call
    /\ prev_ret' = ret
    /\ UNCHANGED <<inVars, locals, loopVars, runVars>>

\* the caller keeps the classifier and the swc and passes another deviation
Reclassify(deviation) ==
    /\ call # NoCall
    /\ call' = [fn |-> call.fn, deviation |-> deviation, swc |-> call.swc]
    /\ ret' = Apply(call.fn, deviation, SwcOfInt(call.swc))
    /\ prev_call' = call
    /\ prev_ret' = ret
    /\ UNCHANGED <<inVars, locals, loopVars, runVars>>

NextClassify ==
    \/ \E fn \in Classifiers, d \in Deviations, s \in 0..MaxSwc :
          FirstCall(fn, d, s)
    \/ \E d \in Deviations : Reclassify(d)

SpecClassify == InitClassify /\ [][NextClassify]_vars

-----------------------------------------------------------------------------
(* The estimators on their own: one athlete, one metric column *)

\* the default of baseline_days / baseline_period_days
default_baseline_days == 180

\* test dates, in days, of the histories that are not weekly
TestDates == {0, 90, 270}

BaselineDays == {0, default_baseline_days}

\* the metric of the single-metric "decrease" rule (rule 3)
PowerRule(v) == DECISION_RULES(v)[3]

PowerMetric(v) == PowerRule(v).metrics[1]

\* a row of the table: the n-th test of an athlete reads n or is missing
TestRow(athlete, date, metric, n, present) ==
    [Athlete_Name |-> athlete, Date |-> date,
     vals |-> (metric :> (IF present THEN n ELSE NaN))]

\* tests one week apart, any of them missing the metric
WeeklyHistories(metric) ==
    UNION { { [i \in 1..n |-> TestRow("A1", 7 * i, metric, i, f[i])] :
                f \in [1..n -> BOOLEAN] } : n \in 1..MaxWeekly }

\* tests on any dates, in any file order
IrregularHistories(metric) ==
    UNION { { [i \in 1..n |-> TestRow("A1", d[i], metric, i, f[i])] :
                f \in [1..n -> BOOLEAN], d \in [1..n -> TestDates] } :
              n \in 1..MaxIrregular }

InitBaseline ==
    /\ IdleClassifier
    /\ variant \in Variants \cup {Engine}
    /\ columns = {PowerMetric(variant)}
    /\ df \in WeeklyHistories(PowerMetric(variant))
                \cup IrregularHistories(PowerMetric(variant))
    /\ baseline_days \in
          IF variant \in {"generate_training_report", Engine}
          THEN BaselineDays ELSE {default_baseline_days}
    /\ rules = DECISION_RULES(variant)
    /\ locals = NoLocals
    /\ IdleLoop

\* the metric loop of the single-metric rule on the athlete's sorted rows
Estimate ==
    /\ locals = NoLocals
    /\ \E athlete_data \in sort_values(df) :
          locals' =
            [athlete_data |-> athlete_data,
             check |-> CheckMetric(variant, PowerRule(variant), athlete_data,
                                   columns, PowerMetric(variant), baseline_days),
             loop |-> EvaluateRule(variant, PowerRule(variant), athlete_data,
                                   columns, baseline_days)]
    /\ UNCHANGED <<clsVars, inVars, loopVars, runVars>>

NextBaseline == Estimate

SpecBaseline == InitBaseline /\ [][NextBaseline]_vars

-----------------------------------------------------------------------------
(* categorize_athletes *)

\* df['Athlete_Name'].unique(): the names in order of first appearance
RECURSIVE unique(_)
unique(names) ==
    IF names = <<>> THEN <<>>
    ELSE LET init == unique(SubSeq(names, 1, Len(names) - 1))
             last == names[Len(names)]
         IN IF \E i \in 1..Len(init) : init[i] = last
            THEN init ELSE Append(init, last)

athletes == unique([i \in 1..Len(df) |-> df[i].Athlete_Name])

\* the key of category_athletes.sort(key=...)
severity_order(severity) ==
    CASE severity \in {"critical", "red"} -> 0
      [] severity \in {"warning", "orange"} -> 1
      [] severity \in {"caution", "yellow"} -> 2

\* an entry goes in front of the entries of equal key
insert_unstable(sorted, x) ==
    LET k == Cardinality({i \in 1..Len(sorted) :
                 severity_order(sorted[i].severity) < severity_order(x.severity)})
    IN SubSeq(sorted, 1, k) \o <<x>> \o SubSeq(sorted, k + 1, Len(sorted))

\* an entry goes behind every entry whose key is not larger
insert_stable(sorted, x) ==
    LET k == Cardinality({i \in 1..Len(sorted) :
                 severity_order(sorted[i].severity) <= severity_order(x.severity)})
    IN SubSeq(sorted, 1, k) \o <<x>> \o SubSeq(sorted, k + 1, Len(sorted))

\* list.sort(key=...): a stable sort, here by insertion from the left
RECURSIVE sort_by_severity(_)
sort_by_severity(entries) ==
    IF entries = <<>> THEN <<>>
    ELSE insert_stable(sort_by_severity(SubSeq(entries, 1, Len(entries) - 1)),
                       entries[Len(entries)])

\* every count is taken with the key of the first one
CountSeverity_pasted(entries, rank) ==
    Cardinality({i \in 1..Len(entries) : TierRank(entries[i].severity) = 3})

\* sum(1 for a in category_athletes if a['severity'] == ...)
CountSeverity(entries, rank) ==
    Cardinality({i \in 1..Len(entries) : TierRank(entries[i].severity) = rank})

\* the table itself is put in date order: df.sort_values('Date', inplace=True)
df_sorted_inplace(frame, athlete_data) ==
    CHOOSE sorted \in sort_values(frame) : TRUE

\* df after df[df['Athlete_Name'] == athlete].sort_values('Date'): the
\* selection and the sort return new frames and leave df as it is
df_after_selection(frame, athlete_data) == frame

\* the list of the rule before is carried into the next rule
category_athletes_kept(previous) == previous

\* category_athletes = [] at the top of the rule loop
category_athletes_new(previous) == <<>>

RuleMajor == variant # "generate_report_app"

NumRules == Len(rules)

\* the loop result of an athlete the gate turns away
NoLoop ==
    [all_flagged |-> FALSE, worst_severity |-> "none", checked |-> 0,
     raised |-> FALSE]

\* the keys of the dictionaries that are indexed with a severity
severity_keys ==
    IF variant = "generate_training_report"
    THEN {"red", "orange", "yellow"}
    ELSE {"critical", "warning", "caution"}

\* some x['severity'] is not a key of the dictionary of the sort key
sort_raises(entries) ==
    \E k \in 1..Len(entries) : entries[k].severity \notin severity_keys

\* one pass of "for athlete in athletes" inside "for cat_num, rule":
\* the gate, the metric loop and the append
EvaluateAthlete ==
    /\ pc = "athlete"
    /\ RuleMajor
    /\ LET athlete == athletes[ath_idx]
           rule == rules[cat_idx]
       IN \E athlete_data \in sort_values(RowsOf(df, athlete)) :
            LET r == IF Len(athlete_data) < MinRecords(variant) THEN NoLoop
                     ELSE EvaluateRule(variant, rule, athlete_data, columns,
                                       baseline_days)
                \* the emoji / label lookup of generate_training_report
                lookup_raises ==
                    /\ variant = "generate_training_report"
                    /\ r.all_flagged
                    /\ r.worst_severity \notin severity_keys
            IN
            /\ locals' = [athlete_data |-> athlete_data, cat_num |-> cat_idx,
                          loop |-> r]
            /\ df' = df_after_selection(df, athlete_data)
            /\ IF r.raised \/ lookup_raises
               THEN /\ pc' = "raised"
                    /\ UNCHANGED <<category_athletes, flagged_athletes,
                                   ath_idx>>
               ELSE /\ category_athletes' =
                         IF r.all_flagged
                         THEN Append(category_athletes,
                                     [name |-> athlete,
                                      severity |-> r.worst_severity])
                         ELSE category_athletes
                    /\ flagged_athletes' =
                         IF r.all_flagged /\ variant = "generate_training_report"
                         THEN flagged_athletes \cup {athlete}
                         ELSE flagged_athletes
                    /\ IF ath_idx < Len(athletes)
                       THEN ath_idx' = ath_idx + 1 /\ pc' = "athlete"
                       ELSE ath_idx' = ath_idx /\ pc' = "sort"
    /\ UNCHANGED <<clsVars, variant, columns, baseline_days, rules, runVars,
                   cat_idx, flagged_categories, results, athlete_results,
                   summary>>

\* after the athlete loop: sort the category, store it if it has athletes,
\* and go on to the next rule
FinishCategory ==
    /\ pc = "sort"
    /\ RuleMajor
    /\ IF sort_raises(category_athletes)
       THEN /\ pc' = "raised"
            /\ UNCHANGED <<results, category_athletes, cat_idx, ath_idx>>
       ELSE /\ LET sorted == sort_by_severity(category_athletes) IN
               results' =
                 IF sorted # <<>>
                 THEN (cat_idx :>
                        [athletes |-> sorted,
                         count |-> Len(sorted),
                         critical |-> CountSeverity(sorted, 3),
                         warning |-> CountSeverity(sorted, 2),
                         caution |-> CountSeverity(sorted, 1)]) @@ results
                 ELSE results
            /\ category_athletes' =
                 category_athletes_new(sort_by_severity(category_athletes))
            /\ IF cat_idx < NumRules
               THEN cat_idx' = cat_idx + 1 /\ ath_idx' = 1 /\ pc' = "athlete"
               ELSE cat_idx' = cat_idx /\ ath_idx' = ath_idx /\ pc' = "summary"
    /\ UNCHANGED <<clsVars, inVars, runVars, locals, flagged_categories,
                   athlete_results, summary, flagged_athletes>>

\* the names in the athlete lists of all stored categories
listed_athletes ==
    UNION { {results[c].athletes[i].name : i \in 1..Len(results[c].athletes)} :
            c \in DOMAIN results }

\* total_flagged / categories_flagged after the rule loop;
\* generate_training_report counts the set it filled at each append
Summarize ==
    /\ pc = "summary"
    /\ RuleMajor
    /\ summary' =
         [total_athletes |-> Len(athletes),
          athletes_flagged |->
             IF variant = "generate_training_report"
             THEN Cardinality(flagged_athletes)
             ELSE Cardinality(listed_athletes),
          categories_flagged |-> Cardinality(DOMAIN results)]
    /\ pc' = "done"
    /\ UNCHANGED <<clsVars, inVars, runVars, locals, cat_idx, ath_idx,
                   category_athletes, flagged_categories, results,
                   athlete_results, flagged_athletes>>

\* generate_report_app: top of "for athlete in athletes": the gate
AppStartAthlete ==
    /\ pc = "app_athlete"
    /\ ~RuleMajor
    /\ \E athlete_data \in sort_values(RowsOf(df, athletes[ath_idx])) :
         /\ locals' = [athlete_data |-> athlete_data, cat_num |-> 0,
                       loop |-> NoLoop]
         /\ df' = df_after_selection(df, athlete_data)
         /\ IF Len(athlete_data) < MinRecords(variant)
            THEN /\ IF ath_idx < Len(athletes)
                    THEN ath_idx' = ath_idx + 1 /\ pc' = "app_athlete"
                    ELSE ath_idx' = ath_idx /\ pc' = "done"
                 /\ UNCHANGED <<flagged_categories, cat_idx>>
            ELSE /\ ath_idx' = ath_idx
                 /\ pc' = "app_category"
                 /\ flagged_categories' = <<>>
                 /\ cat_idx' = 1
    /\ UNCHANGED <<clsVars, variant, columns, baseline_days, rules, runVars,
                   category_athletes, results, athlete_results, summary,
                   flagged_athletes>>

\* generate_report_app: one pass of "for cat_num, rule" for the athlete
AppEvaluateCategory ==
    /\ pc = "app_category"
    /\ ~RuleMajor
    /\ LET rule == rules[cat_idx]
           r == EvaluateRule(variant, rule, locals.athlete_data, columns,
                             baseline_days)
       IN
       /\ locals' = [locals EXCEPT !.cat_num = cat_idx, !.loop = r]
       /\ IF r.raised
          THEN pc' = "raised" /\ UNCHANGED <<flagged_categories, cat_idx>>
          ELSE /\ flagged_categories' =
                    IF r.all_flagged
                    THEN Append(flagged_categories,
                                [cat_num |-> cat_idx,
                                 severity |-> r.worst_severity])
                    ELSE flagged_categories
               /\ IF cat_idx < NumRules
                  THEN cat_idx' = cat_idx + 1 /\ pc' = "app_category"
                  ELSE cat_idx' = cat_idx /\ pc' = "app_sort"
    /\ UNCHANGED <<clsVars, inVars, runVars, ath_idx, category_athletes,
                   results, athlete_results, summary, flagged_athletes>>

\* generate_report_app: after the rule loop: sort and store the athlete
AppFinishAthlete ==
    /\ pc = "app_sort"
    /\ ~RuleMajor
    /\ IF sort_raises(flagged_categories)
       THEN pc' = "raised" /\ UNCHANGED <<athlete_results, ath_idx>>
       ELSE /\ athlete_results' =
                 IF flagged_categories # <<>>
                 THEN (athletes[ath_idx] :>
                        [flagged_categories |->
                            sort_by_severity(flagged_categories)])
                      @@ athlete_results
                 ELSE athlete_results
            /\ IF ath_idx < Len(athletes)
               THEN ath_idx' = ath_idx + 1 /\ pc' = "app_athlete"
               ELSE ath_idx' = ath_idx /\ pc' = "done"
    /\ UNCHANGED <<clsVars, inVars, runVars, locals, cat_idx,
                   category_athletes, flagged_categories, results, summary,
                   flagged_athletes>>

Next ==
    \/ EvaluateAthlete
    \/ FinishCategory
    \/ Summarize
    \/ AppStartAthlete
    \/ AppEvaluateCategory
    \/ AppFinishAthlete

-----------------------------------------------------------------------------
(* Reading tables the entry points are run on *)

\* histories of one metric over five weekly tests, oldest first: steady at
\* 10, a small, a medium and a large change, a drop from 12 to 8, two
\* readings only, and a last test without a reading
SeriesLib ==
    {<<10, 10, 10, 10, 10>>,
     <<9, 8, 11, 10, 9>>,
     <<8, 9, 12, 10, 9>>,
     <<8, 8, 8, 8, 12>>,
     <<12, 12, 12, 12, 8>>,
     <<NaN, NaN, NaN, 12, 12>>,
     <<8, 8, 8, 12, NaN>>}

\* the histories hold as many tests as the record-count gate asks for
SeriesLen == min_records

\* an athlete has the last 4 or all 5 of the weekly tests
RowCounts == {SeriesLen - 1, SeriesLen}

RosterNames == <<"Walker", "Adams", "Nelson", "Baker", "Hall">>

\* the rows of one athlete: n weekly tests, the metrics following histories
AthleteRows(athlete, n, history) ==
    [i \in 1..n |->
        [Athlete_Name |-> athlete, Date |-> 7 * i,
         vals |-> [m \in DOMAIN history |-> history[m][SeriesLen - n + i]]]]

RECURSIVE Concat(_)
Concat(frames) ==
    IF frames = <<>> THEN <<>> ELSE Head(frames) \o Concat(Tail(frames))

MetricsOf(rule) == {rule.metrics[i] : i \in 1..Len(rule.metrics)}

\* the columns of one rule, all of them or all but one
Schemas(v) ==
    UNION { {MetricsOf(DECISION_RULES(v)[r])}
              \cup {MetricsOf(DECISION_RULES(v)[r]) \ {m} :
                      m \in MetricsOf(DECISION_RULES(v)[r])} :
            r \in 1..Len(DECISION_RULES(v)) }

StartLoop ==
    /\ pc = IF variant = "generate_report_app" THEN "app_athlete" ELSE "athlete"
    /\ cat_idx = 1
    /\ ath_idx = 1
    /\ category_athletes = <<>>
    /\ flagged_categories = <<>>
    /\ results = <<>>
    /\ athlete_results = <<>>
    /\ summary = <<>>
    /\ flagged_athletes = {}

\* the first run, on the day of the latest test of the table
FirstRun ==
    /\ run = 1
    /\ first = <<>>
    /\ clock = MaxDate(df)

\* one athlete; the table has the columns of one rule
Init ==
    /\ IdleClassifier
    /\ variant \in Variants
    /\ baseline_days = default_baseline_days
    /\ rules = DECISION_RULES(variant)
    /\ columns \in Schemas(variant)
    /\ \E n \in RowCounts, history \in [columns -> SeriesLib] :
          df = AthleteRows(RosterNames[1], n, history)
    /\ locals = NoLocals
    /\ StartLoop
    /\ FirstRun

Spec == Init /\ [][Next]_vars

\* a roster of athletes with five tests each; the table has the column of
\* the single-metric rule
InitRoster ==
    /\ IdleClassifier
    /\ variant \in Variants
    /\ baseline_days = default_baseline_days
    /\ rules = DECISION_RULES(variant)
    /\ columns = {PowerMetric(variant)}
    /\ \E series \in [1..NAthletes -> SeriesLib] :
          df = Concat([a \in 1..NAthletes |->
                         AthleteRows(RosterNames[a], SeriesLen,
                                     (PowerMetric(variant) :> series[a]))])
    /\ locals = NoLocals
    /\ StartLoop
    /\ FirstRun

SpecRoster == InitRoster /\ [][Next]_vars

-----------------------------------------------------------------------------
(* A team of two athletes, run twice on the same table *)

\* the metric of the rule on the left/right asymmetry (rule 7)
AsymmetryRule(v) == DECISION_RULES(v)[7]

AsymmetryMetric(v) == AsymmetryRule(v).metrics[1]

\* steady at 10, a large and a medium change, and three readings in five
\* tests
TeamSeries ==
    {<<10, 10, 10, 10, 10>>,
     <<8, 8, 8, 8, 12>>,
     <<8, 9, 12, 10, 9>>,
     <<NaN, 8, NaN, 8, 12>>}

TeamNames == <<RosterNames[1], RosterNames[2]>>

\* the table has the power column, the asymmetry column or both
TeamSchemas(v) ==
    {{PowerMetric(v), AsymmetryMetric(v)}, {PowerMetric(v)},
     {AsymmetryMetric(v)}}

\* what categorize_athletes returns
Returned == [results |-> results, athlete_results |-> athlete_results,
             summary |-> summary]

InitTeam ==
    /\ IdleClassifier
    /\ variant \in Variants
    /\ baseline_days = default_baseline_days
    /\ rules = DECISION_RULES(variant)
    /\ columns \in TeamSchemas(variant)
    /\ \E n \in RowCounts, h \in [DOMAIN TeamNames -> [columns -> TeamSeries]] :
          df = AthleteRows(TeamNames[1], n, h[1])
                 \o AthleteRows(TeamNames[2], SeriesLen, h[2])
    /\ locals = NoLocals
    /\ StartLoop
    /\ FirstRun

\* the entry point is called again on the same table, the same day or a
\* year later: results, athletes and the lists are created anew
Rerun ==
    /\ pc = "done"
    /\ run = 1
    /\ run' = run + 1
    /\ first' = Returned
    /\ clock' \in {clock, clock + 2 * baseline_days}
    /\ locals' = NoLocals
    /\ pc' = IF RuleMajor THEN "athlete" ELSE "app_athlete"
    /\ cat_idx' = 1
    /\ ath_idx' = 1
    /\ category_athletes' = <<>>
    /\ flagged_categories' = <<>>
    /\ results' = <<>>
    /\ athlete_results' = <<>>
    /\ summary' = <<>>
    /\ flagged_athletes' = {}
    /\ UNCHANGED <<clsVars, inVars>>

NextTeam ==
    \/ Next
    \/ Rerun

SpecTeam == InitTeam /\ [][NextTeam]_vars

-----------------------------------------------------------------------------
(* Rule tables as they can be written: one rule, valid or not *)

\* the rule without its 'threshold' key
WithoutThreshold(rule) ==
    [k \in DOMAIN rule \ {"threshold"} |-> rule[k]]

\* the rule with 'metrics': []
WithoutMetrics(rule) == [rule EXCEPT !.metrics = <<>>]

\* the power rule and the absolute rule of the table, as they are and with
\* the metric list emptied or the threshold left out
WrittenRules(v) ==
    {PowerRule(v), WithoutMetrics(PowerRule(v)),
     real_DECISION_RULES[7], WithoutThreshold(real_DECISION_RULES[7])}

\* a table of one rule, one athlete; the entry points read DECISION_RULES
\* as it is written, there is no step that loads or checks it
InitConfig ==
    /\ IdleClassifier
    /\ variant \in Variants
    /\ baseline_days = default_baseline_days
    /\ \E rule \in WrittenRules(variant) : rules = <<rule>>
    /\ columns = MetricsOf(rules[1]) \cup {PowerMetric(variant)}
    /\ \E n \in RowCounts, history \in [columns -> SeriesLib] :
          df = AthleteRows(RosterNames[1], n, history)
    /\ locals = NoLocals
    /\ StartLoop
    /\ FirstRun

SpecConfig == InitConfig /\ [][Next]_vars

-----------------------------------------------------------------------------
(* One athlete, one single-metric "decrease" rule, proportional split *)

ProportionalSplit == Variants \ {"generate_training_report"}

\* ten weekly values falling in equal steps from 100 to 70, written as
\* 70 + (10/3) * x with x = 9, 8, ..., 0: the values themselves are not
\* whole numbers; mean, deviation and standard deviation of the values are
\* those of x times 10/3 (the mean plus 70), so the tiers are the same
DeclineCoded == <<9, 8, 7, 6, 5, 4, 3, 2, 1, 0>>

\* ten weekly values going round 100, 101 and 99
HoverSeries == <<100, 101, 99, 100, 101, 99, 100, 101, 99, 101>>

\* five weekly values, each of them 98, 99, 100, 101 or 102
StableSeries == [1..SeriesLen -> {100 - 2, 100 - 1, 100, 100 + 1, 100 + 2}]

\* the rows of one athlete: weekly tests of one metric
ScenarioRows(metric, series) ==
    [i \in 1..Len(series) |->
        [Athlete_Name |-> RosterNames[1], Date |-> 7 * i,
         vals |-> (metric :> series[i])]]

InitScenario ==
    /\ IdleClassifier
    /\ variant \in ProportionalSplit
    /\ baseline_days = default_baseline_days
    /\ rules = <<PowerRule(variant)>>
    /\ columns = {PowerMetric(variant)}
    /\ \E series \in {DeclineCoded, HoverSeries} \cup StableSeries :
          df = ScenarioRows(PowerMetric(variant), series)
    /\ locals = NoLocals
    /\ StartLoop
    /\ FirstRun

SpecScenario == InitScenario /\ [][Next]_vars

-----------------------------------------------------------------------------
(* Claims about the classifier *)

Called == call # NoCall

DescendingChain ==
    {"classify_severity", "html_classify_severity", "get_severity"}

\* |deviation| * 10 > k10 * swc on the integers, for a numeric deviation
ExceedsMultiple(c, k10) ==
    /\ ~c.deviation.nan
    /\ 10 * Abs(c.deviation.num) > k10 * c.swc * c.deviation.den

\* |deviation| * 10 = k10 * swc
EqualsMultiple(c, k10) ==
    /\ ~c.deviation.nan
    /\ 10 * Abs(c.deviation.num) = k10 * c.swc * c.deviation.den

\* C3: classify_severity / get_severity return critical iff
\* |deviation| > 2.0*swc, otherwise warning iff |deviation| > 1.5*swc,
\* otherwise caution iff |deviation| > 1.0*swc, otherwise normal; the
\* comparisons are strict, so for swc > 0 a deviation of exactly 2.0*swc is
\* warning, of exactly 1.5*swc caution and of exactly 1.0*swc normal.
C3_TierTable ==
    (Called /\ call.fn \in DescendingChain) =>
        /\ (TierRank(ret) = 3) <=> ExceedsMultiple(call, 20)
        /\ (TierRank(ret) = 2) <=>
              (~ExceedsMultiple(call, 20) /\ ExceedsMultiple(call, 15))
        /\ (TierRank(ret) = 1) <=>
              (~ExceedsMultiple(call, 15) /\ ExceedsMultiple(call, 10))
        /\ (TierRank(ret) = 0) <=> ~ExceedsMultiple(call, 10)
        /\ (call.swc > 0 /\ EqualsMultiple(call, 20)) => TierRank(ret) = 2
        /\ (call.swc > 0 /\ EqualsMultiple(call, 15)) => TierRank(ret) = 1
        /\ (call.swc > 0 /\ EqualsMultiple(call, 10)) => TierRank(ret) = 0

\* a deviation of exactly 2.0*swc, swc > 0, classified by demo_report
C3_Witness ==
    /\ Called
    /\ call.fn = "classify_severity"
    /\ call.swc > 0
    /\ EqualsMultiple(call, 20)
    /\ ret = "warning"

\* |d1| <= |d2| for two numeric deviations
AbsLeq(d1, d2) ==
    /\ ~d1.nan
    /\ ~d2.nan
    /\ Abs(d1.num) * d2.den <= Abs(d2.num) * d1.den

\* C4: classify is monotonic in |deviation|: with the swc held fixed, a
\* deviation of larger or equal magnitude never gets a less severe tier
\* (normal < caution < warning < critical), whatever its sign.
C4_Monotonic ==
    (/\ Called
     /\ prev_call # NoCall
     /\ prev_call.fn = call.fn
     /\ prev_call.swc = call.swc
     /\ AbsLeq(prev_call.deviation, call.deviation))
        => TierRank(prev_ret) <= TierRank(ret)

\* a caution followed, at the same swc, by a critical of opposite sign
C4_Witness ==
    /\ Called
    /\ prev_call # NoCall
    /\ prev_call.fn = call.fn
    /\ prev_call.swc = call.swc
    /\ call.swc > 0
    /\ AbsLeq(prev_call.deviation, call.deviation)
    /\ prev_call.deviation.num > 0
    /\ call.deviation.num < 0
    /\ TierRank(prev_ret) = 1
    /\ TierRank(ret) = 3

\* C5: with swc = 0 every nonzero deviation is critical and a zero
\* deviation is normal, in every classifier.
C5_ZeroSwc ==
    (Called /\ call.swc = 0 /\ ~call.deviation.nan) =>
        /\ call.deviation.num # 0 => TierRank(ret) = 3
        /\ call.deviation.num = 0 => TierRank(ret) = 0

\* the dashboard engine classifying a zero deviation against swc = 0
C5_Witness ==
    /\ Called
    /\ call.fn = "Engine_classify_severity"
    /\ call.swc = 0
    /\ call.deviation = Rat(0, 1)
    /\ ret = "green"

-----------------------------------------------------------------------------
(* Claims about the baseline estimators *)

Estimated == locals # NoLocals

ProportionalVariants ==
    {"demo_report", "generate_real_report", "generate_report_app",
     "generate_html_report"}

RollingVariants == {"generate_training_report", Engine}

\* how often a row occurs in a frame
Occurrences(frame, r) == Cardinality({i \in 1..Len(frame) : frame[i] = r})

\* athlete_data holds the rows of the table, ordered by date
DateOrdered(athlete_data) ==
    /\ Len(athlete_data) = Len(df)
    /\ \A i \in 1..Len(df) :
          Occurrences(athlete_data, df[i]) = Occurrences(df, df[i])
    /\ \A i, j \in 1..Len(athlete_data) :
          i < j => athlete_data[i].Date <= athlete_data[j].Date

\* the rows of a frame that have a reading of the metric
ReadingRows(frame, metric) ==
    {i \in 1..Len(frame) : frame[i].vals[metric] # NaN}

\* the j-th reading of the metric in a frame
NthReading(frame, metric, j) ==
    LET i == CHOOSE x \in ReadingRows(frame, metric) :
                 Cardinality({y \in ReadingRows(frame, metric) : y <= x}) = j
    IN frame[i].vals[metric]

\* floor(0.6 * n)
SixtyPercent(n) == CHOOSE k \in 0..n : 5 * k <= 3 * n /\ 3 * n < 5 * (k + 1)

\* the metric check got as far as a baseline mean and an swc
EstimateSucceeded == locals.check.why \in {"normal", "below", "flag"}

ReadingsSince(metric, day) ==
    {df[i].vals[metric] : i \in {x \in ReadingRows(df, metric) : df[x].Date >= day}}

SeqRange(seq) == {seq[i] : i \in 1..Len(seq)}

\* C8: rolling window by date: the cutoff is the athlete's most recent
\* reading date minus baseline_days (taken from the data), the baseline
\* window is exactly the non-missing values dated at or after the cutoff,
\* and the estimate fails, leaving the athlete unflagged by this metric, iff
\* the window has fewer than 3 values.
C8_RollingWindow ==
    (Estimated /\ variant \in RollingVariants) =>
        LET m == PowerMetric(variant)
            c == locals.check
            latest == CHOOSE d \in {df[i].Date : i \in 1..Len(df)} :
                          \A i \in 1..Len(df) : df[i].Date <= d
            window == ReadingsSince(m, latest - baseline_days)
        IN
        /\ c.cutoff = latest - baseline_days
        /\ SeqRange(c.baseline) = window
        /\ Len(c.baseline) = Cardinality(window)
        /\ (c.why = "short") <=> (Cardinality(window) < 3)
        /\ c.why = "short" => (c.brk /\ ~locals.loop.all_flagged)

\* a test dated exactly at the cutoff is in the window, an older one is not
C8_Witness ==
    /\ Estimated
    /\ variant = "generate_training_report"
    /\ baseline_days = default_baseline_days
    /\ \E i \in 1..Len(df) :
          /\ df[i].Date = locals.check.cutoff
          /\ df[i].vals[PowerMetric(variant)] # NaN
    /\ \E i \in 1..Len(df) :
          /\ df[i].Date < locals.check.cutoff
          /\ df[i].vals[PowerMetric(variant)] # NaN
    /\ Len(locals.check.baseline) = 3
    /\ locals.check.why # "short"

-----------------------------------------------------------------------------
(* The same table under the rule-major and the athlete-major traversal *)

Traversals == {"generate_real_report", "generate_report_app"}

\* the (athlete, rule, severity) triples of a rule-major result
TriplesOfCategories(categories) ==
    UNION { { <<categories[c].athletes[i].name, c,
                categories[c].athletes[i].severity>> :
                  i \in 1..Len(categories[c].athletes) } :
            c \in DOMAIN categories }

\* the (athlete, rule, severity) triples of an athlete-major result
TriplesOfAthletes(by_athlete) ==
    UNION { { <<a, by_athlete[a].flagged_categories[i].cat_num,
                by_athlete[a].flagged_categories[i].severity>> :
                  i \in 1..Len(by_athlete[a].flagged_categories) } :
            a \in DOMAIN by_athlete }

Triples(returned) ==
    TriplesOfCategories(returned.results)
        \cup TriplesOfAthletes(returned.athlete_results)

\* two athletes in either file order
InitTraversal ==
    /\ IdleClassifier
    /\ variant \in Traversals
    /\ baseline_days = default_baseline_days
    /\ rules = DECISION_RULES(variant)
    /\ columns \in TeamSchemas(variant)
    /\ \E n \in RowCounts, h \in [DOMAIN TeamNames -> [columns -> TeamSeries]] :
          df \in {AthleteRows(TeamNames[1], n, h[1])
                    \o AthleteRows(TeamNames[2], SeriesLen, h[2]),
                  AthleteRows(TeamNames[2], SeriesLen, h[2])
                    \o AthleteRows(TeamNames[1], n, h[1])}
    /\ locals = NoLocals
    /\ StartLoop
    /\ FirstRun

\* the other entry point is run on the same table and the same rules
OtherTraversal ==
    /\ pc = "done"
    /\ run = 1
    /\ run' = run + 1
    /\ first' = Returned
    /\ variant' = CHOOSE v \in Traversals : v # variant
    /\ locals' = NoLocals
    /\ pc' = IF RuleMajor THEN "app_athlete" ELSE "athlete"
    /\ cat_idx' = 1
    /\ ath_idx' = 1
    /\ category_athletes' = <<>>
    /\ flagged_categories' = <<>>
    /\ results' = <<>>
    /\ athlete_results' = <<>>
    /\ summary' = <<>>
    /\ flagged_athletes' = {}
    /\ UNCHANGED <<clsVars, df, columns, baseline_days, rules, clock>>

NextTraversal ==
    \/ Next
    \/ OtherTraversal

SpecTraversal == InitTraversal /\ [][NextTraversal]_vars

-----------------------------------------------------------------------------
(* ForcePlateDecisionEngine.evaluate_athlete on the rows of one athlete *)

priority_map ==
    (5 :> 1) @@ (7 :> 2) @@ (9 :> 3) @@ (1 :> 4) @@ (2 :> 5) @@ (3 :> 6)
        @@ (4 :> 7) @@ (6 :> 8) @@ (8 :> 9)

severity_map == [red |-> 0, orange |-> 1, yellow |-> 2]

\* the sort key without the category priority
flag_key_severity(x) == <<severity_map[x.severity], 0>>

\* (severity_map.get(x['severity'], 3), priority_map.get(x['category_num'], 10))
flag_key(x) == <<severity_map[x.severity], priority_map[x.category_num]>>

\* comparison of two key tuples
KeyLeq(k, l) == k[1] < l[1] \/ (k[1] = l[1] /\ k[2] <= l[2])

\* flags.sort(key=...): a stable sort, here by insertion from the left
RECURSIVE sort_flags(_)
sort_flags(flags) ==
    IF flags = <<>> THEN <<>>
    ELSE LET sorted == sort_flags(SubSeq(flags, 1, Len(flags) - 1))
             x == flags[Len(flags)]
             k == Cardinality({i \in 1..Len(sorted) :
                                 KeyLeq(flag_key(sorted[i]), flag_key(x))})
         IN SubSeq(sorted, 1, k) \o <<x>> \o SubSeq(sorted, k + 1, Len(sorted))

\* histories of the dashboard: those of the reports and one steady at 12
EngineSeries == SeriesLib \cup {<<12, 12, 12, 12, 12>>}

\* the columns of one rule, all of them or all but one, one column of
\* each of the rules 3, 5 and 7, or the second columns of the rules 6 and 8
EngineSchemas ==
    Schemas(Engine)
        \cup {{Engine_DECISION_RULES[3].metrics[1],
                Engine_DECISION_RULES[5].metrics[1],
                Engine_DECISION_RULES[7].metrics[1]},
               {Engine_DECISION_RULES[6].metrics[2],
                Engine_DECISION_RULES[8].metrics[2]}}

\* the page has selected the rows of one athlete
InitEngine ==
    /\ IdleClassifier
    /\ variant = Engine
    /\ baseline_days = default_baseline_days
    /\ rules = DECISION_RULES(variant)
    /\ columns \in EngineSchemas
    /\ \E n \in RowCounts, history \in [columns -> EngineSeries] :
          df = AthleteRows(RosterNames[1], n, history)
    /\ locals = NoLocals
    /\ pc = "engine_call"
    /\ cat_idx = 1
    /\ ath_idx = 1
    /\ category_athletes = <<>>
    /\ flagged_categories = <<>>
    /\ results = <<>>
    /\ athlete_results = <<>>
    /\ summary = <<>>
    /\ flagged_athletes = {}
    /\ FirstRun

\* the caller sorts the athlete's rows by date and calls evaluate_athlete:
\* flags = [], the cutoff and the most recent test
EngineCall ==
    /\ pc = "engine_call"
    /\ \E athlete_data \in sort_values(RowsOf(df, athletes[ath_idx])) :
          locals' = [athlete_data |-> athlete_data, cat_num |-> 0,
                     loop |-> NoLoop]
    /\ flagged_categories' = <<>>
    /\ cat_idx' = 1
    /\ pc' = "engine_rule"
    /\ UNCHANGED <<clsVars, inVars, runVars, ath_idx, category_athletes,
                   results, athlete_results, summary, flagged_athletes>>

\* one pass of "for cat_num, rule in cls.DECISION_RULES.items()": the
\* metric loop, and the append of the flag of the metric that ended it
EngineEvaluateRule ==
    /\ pc = "engine_rule"
    /\ LET rule == rules[cat_idx]
           r == Engine_metric_loop(rule, locals.athlete_data, columns,
                                   baseline_days, 1)
       IN
       /\ locals' = [locals EXCEPT !.cat_num = cat_idx, !.loop = r]
       /\ flagged_categories' =
             IF r.all_flagged
             THEN LET metric == rule.metrics[r.checked]
                      c == Engine_check_metric(rule, locals.athlete_data,
                                               columns, metric, baseline_days)
                  IN Append(flagged_categories,
                            [category_num |-> cat_idx,
                             metric |-> metric,
                             current_value |-> c.current,
                             deviation |->
                                Engine_deviation(rule, c.baseline, c.current),
                             severity |-> r.worst_severity])
             ELSE flagged_categories
       /\ IF cat_idx < NumRules
          THEN cat_idx' = cat_idx + 1 /\ pc' = "engine_rule"
          ELSE cat_idx' = cat_idx /\ pc' = "engine_sort"
    /\ UNCHANGED <<clsVars, inVars, runVars, ath_idx, category_athletes,
                   results, athlete_results, summary, flagged_athletes>>

\* flags.sort(...) and return flags
EngineReturn ==
    /\ pc = "engine_sort"
    /\ flagged_categories' = sort_flags(flagged_categories)
    /\ pc' = "done"
    /\ UNCHANGED <<clsVars, inVars, runVars, locals, cat_idx, ath_idx,
                   category_athletes, results, athlete_results, summary,
                   flagged_athletes>>

NextEngine ==
    \/ EngineCall
    \/ EngineEvaluateRule
    \/ EngineReturn

SpecEngine == InitEngine /\ [][NextEngine]_vars

-----------------------------------------------------------------------------
(* Claims about categorize_athletes *)

Finished == pc = "done"

\* the severity recorded for the athlete in the category, "none" without flag
FlagSeverity(a, c) ==
    IF RuleMajor
    THEN IF c \in DOMAIN results
            /\ \E i \in 1..Len(results[c].athletes) :
                  results[c].athletes[i].name = a
         THEN LET i == CHOOSE x \in 1..Len(results[c].athletes) :
                           results[c].athletes[x].name = a
              IN results[c].athletes[i].severity
         ELSE "none"
    ELSE IF a \in DOMAIN athlete_results
            /\ \E i \in 1..Len(athlete_results[a].flagged_categories) :
                  athlete_results[a].flagged_categories[i].cat_num = c
         THEN LET i == CHOOSE x \in 1..Len(athlete_results[a].flagged_categories) :
                           athlete_results[a].flagged_categories[x].cat_num = c
              IN athlete_results[a].flagged_categories[i].severity
         ELSE "none"

Flagged(a, c) == FlagSeverity(a, c) # "none"

Names == {df[i].Athlete_Name : i \in 1..Len(df)}

RuleIds == 1..Len(DECISION_RULES(variant))

\* the athlete's rows in date order (the test dates of an athlete differ)
SortedRows(a) == CHOOSE ad \in sort_values(RowsOf(df, a)) : TRUE

RecordCount(a) == Cardinality({i \in 1..Len(df) : df[i].Athlete_Name = a})

\* the metric on its own: the outcome of its check for the athlete
MetricOutcome(a, c, m) ==
    CheckMetric(variant, DECISION_RULES(variant)[c], SortedRows(a), columns,
                m, baseline_days)

\* the athlete's rows with the history of one metric replaced
WithHistory(athlete_data, m, series) ==
    [i \in 1..Len(athlete_data) |->
        [athlete_data[i] EXCEPT
            !.vals[m] = series[SeriesLen - Len(athlete_data) + i]]]

\* C1: an athlete that passes the record-count gate is flagged for a rule
\* iff every metric of the rule has a valid baseline and on its own yields a
\* non-normal tier; replacing the history of any one metric of a flagged
\* (athlete, rule) by one that yields normal removes the flag.
C1_AllMetricsAgree ==
    Finished =>
      \A a \in Names, c \in RuleIds :
        LET rule == DECISION_RULES(variant)[c] IN
        RecordCount(a) >= MinRecords(variant) =>
          /\ Flagged(a, c) <=>
                \A m \in MetricsOf(rule) : ~MetricOutcome(a, c, m).brk
          /\ Flagged(a, c) =>
                \A m \in MetricsOf(rule), series \in SeriesLib :
                  LET changed == WithHistory(SortedRows(a), m, series) IN
                  CheckMetric(variant, rule, changed, columns, m,
                              baseline_days).why \in {"normal", "below"}
                    => ~EvaluateRule(variant, rule, changed, columns,
                                     baseline_days).all_flagged

\* a flag of the three-metric rule next to an unflagged two-metric history
C1_Witness ==
    /\ Finished
    /\ variant = "generate_report_app"
    /\ Flagged(RosterNames[1], 2)
    /\ RecordCount(RosterNames[1]) = 5

\* the most severe of the tiers the metrics of the rule yield on their own
WorstRank(a, c) ==
    LET ranks == {TierRank(MetricOutcome(a, c, m).severity) :
                    m \in MetricsOf(DECISION_RULES(variant)[c])}
    IN CHOOSE r \in ranks : \A q \in ranks : q <= r

\* C2: the severity recorded with a flag is the single most severe tier
\* among the tiers of the rule's metrics (critical > warning > caution),
\* whatever the order of the metrics, and is never normal.
C2_WorstSeverity ==
    Finished =>
      \A a \in Names, c \in RuleIds :
        Flagged(a, c) =>
          /\ TierRank(FlagSeverity(a, c)) = WorstRank(a, c)
          /\ TierRank(FlagSeverity(a, c)) > 0

\* tiers caution, critical, warning in the order of the metrics: critical
C2_Witness ==
    /\ Finished
    /\ variant = "demo_report"
    /\ FlagSeverity(RosterNames[1], 2) = "critical"
    /\ MetricOutcome(RosterNames[1], 2, "IMTP_Force_50ms").severity = "caution"
    /\ MetricOutcome(RosterNames[1], 2, "IMTP_Force_100ms").severity = "critical"
    /\ MetricOutcome(RosterNames[1], 2, "IMTP_Force_200ms").severity = "warning"

\* C6: in every entry point an athlete with exactly 4 test records is
\* excluded from every rule whatever the values, and an athlete with exactly
\* 5 records and qualifying values is flagged.
C6_MinimumRecords ==
    Finished =>
      \A a \in Names, c \in RuleIds :
        /\ RecordCount(a) = 4 => ~Flagged(a, c)
        /\ (RecordCount(a) = 5
              /\ \A m \in MetricsOf(DECISION_RULES(variant)[c]) :
                    ~MetricOutcome(a, c, m).brk)
             => Flagged(a, c)

AbsoluteRules ==
    {c \in RuleIds : DECISION_RULES(variant)[c].trend = "absolute"}

\* number of readings of the metric the athlete has
Readings(a, m) ==
    IF m \in columns
    THEN Cardinality({i \in 1..Len(df) :
            df[i].Athlete_Name = a /\ df[i].vals[m] # NaN})
    ELSE 0

\* the athlete's latest reading of the metric exceeds the value
LatestExceeds(a, m, value) ==
    /\ Readings(a, m) > 0
    /\ \E i \in 1..Len(df) :
          /\ df[i].Athlete_Name = a
          /\ df[i].vals[m] # NaN
          /\ df[i].vals[m] > value
          /\ \A j \in 1..Len(df) :
                (df[j].Athlete_Name = a /\ df[j].vals[m] # NaN)
                   => df[j].Date <= df[i].Date

\* C9 as claimed: for an absolute rule and an athlete passing the gate the
\* flag depends only on the current value and the threshold: flagged, as
\* critical, iff the current value is strictly greater than the threshold.
C9_AbsoluteOnlyCurrent ==
    Finished =>
      \A a \in Names, c \in AbsoluteRules :
        LET rule == DECISION_RULES(variant)[c] IN
        RecordCount(a) >= MinRecords(variant) =>
          /\ Flagged(a, c) <=>
                LatestExceeds(a, rule.metrics[1], rule.threshold)
          /\ Flagged(a, c) => FlagSeverity(a, c) = "critical"

\* C9 as amended: the same, for an athlete whose metric has a valid
\* baseline (at least 3 readings and a baseline window of at least 2, that
\* is at least 4 readings); without one the athlete is not flagged.
C9_AbsoluteGivenBaseline ==
    Finished =>
      \A a \in Names, c \in AbsoluteRules :
        LET rule == DECISION_RULES(variant)[c]
            n == Readings(a, rule.metrics[1])
        IN
        RecordCount(a) >= MinRecords(variant) =>
          /\ (n >= 3 /\ SixtyPercent(n) >= 2) =>
                (Flagged(a, c) <=>
                   LatestExceeds(a, rule.metrics[1], rule.threshold))
          /\ ~(n >= 3 /\ SixtyPercent(n) >= 2) => ~Flagged(a, c)
          /\ Flagged(a, c) => FlagSeverity(a, c) = "critical"

\* a current value of 12 after a steady 8: flagged critical by the
\* threshold of 10
C9_Witness ==
    /\ Finished
    /\ variant = "generate_real_report"
    /\ FlagSeverity(RosterNames[1], 7) = "critical"
    /\ MetricOutcome(RosterNames[1], 7, "IMTP_Asymmetry").current = 12
    /\ MetricOutcome(RosterNames[1], 7, "IMTP_Asymmetry").baseline = <<8, 8, 8>>

\* the row of the table in which the athlete first appears
FirstRow(a) ==
    CHOOSE i \in 1..Len(df) :
        /\ df[i].Athlete_Name = a
        /\ \A j \in 1..Len(df) : df[j].Athlete_Name = a => i <= j

\* C10: in the list of every category the athletes are ordered by severity,
\* critical before warning before caution, and athletes of equal severity
\* stay in the order in which the athletes were iterated (first appearance
\* in the table); the list stored is the one sorted after all athletes of
\* the category were evaluated, so it holds every flagged athlete once.
C10_SortedBySeverity ==
    (RuleMajor /\ pc \in {"athlete", "sort", "summary", "done"}) =>
      \A c \in DOMAIN results :
        LET list == results[c].athletes IN
        /\ \A i, j \in 1..Len(list) :
              i < j =>
                \/ TierRank(list[i].severity) > TierRank(list[j].severity)
                \/ /\ TierRank(list[i].severity) = TierRank(list[j].severity)
                   /\ FirstRow(list[i].name) < FirstRow(list[j].name)
        /\ \A a \in Names :
              (\A m \in MetricsOf(DECISION_RULES(variant)[c]) :
                  ~MetricOutcome(a, c, m).brk)
                 => \E i \in 1..Len(list) : list[i].name = a

\* the third athlete is critical and moves in front of two warnings, which
\* keep their order
C10_Witness ==
    /\ Finished
    /\ variant = "demo_report"
    /\ 3 \in DOMAIN results
    /\ Len(results[3].athletes) = 3
    /\ results[3].athletes[1] = [name |-> RosterNames[3], severity |-> "critical"]
    /\ results[3].athletes[2] = [name |-> RosterNames[1], severity |-> "warning"]
    /\ results[3].athletes[3] = [name |-> RosterNames[2], severity |-> "warning"]

-----------------------------------------------------------------------------
(* Claims about the result and the runs *)

\* the athlete passes the gate and every metric of the rule, taken on its
\* own, passes its check
ExpectedFlag(a, c) ==
    /\ RecordCount(a) >= MinRecords(variant)
    /\ \A m \in MetricsOf(DECISION_RULES(variant)[c]) :
          ~MetricOutcome(a, c, m).brk

ExpectedCategories == {c \in RuleIds : \E a \in Names : ExpectedFlag(a, c)}

ExpectedAthletes == {a \in Names : \E c \in RuleIds : ExpectedFlag(a, c)}

\* C11: the summary is derived from the flag set: count is the length of
\* the athlete list, the tier counts are the numbers of flags of that tier
\* and add up to count, a category key is present iff some athlete is
\* flagged for it, categories_flagged is the number of such categories and
\* athletes_flagged the number of distinct flagged athletes, at most
\* total_athletes.
C11_SummaryFromFlags ==
    (Finished /\ RuleMajor) =>
      /\ DOMAIN results = ExpectedCategories
      /\ \A c \in DOMAIN results :
           LET list == results[c].athletes
               Of(rank) == {a \in Names :
                              /\ ExpectedFlag(a, c)
                              /\ TierRank(FlagSeverity(a, c)) = rank}
           IN
           /\ list # <<>>
           /\ results[c].count = Len(list)
           /\ results[c].count = Cardinality({a \in Names : ExpectedFlag(a, c)})
           /\ results[c].critical = Cardinality(Of(3))
           /\ results[c].warning = Cardinality(Of(2))
           /\ results[c].caution = Cardinality(Of(1))
           /\ results[c].critical + results[c].warning + results[c].caution
                = results[c].count
      /\ summary.categories_flagged = Cardinality(ExpectedCategories)
      /\ summary.athletes_flagged = Cardinality(ExpectedAthletes)
      /\ summary.athletes_flagged <= summary.total_athletes
      /\ summary.total_athletes = Cardinality(Names)

\* two categories with three flags between them, on two athletes
C11_Witness ==
    /\ Finished
    /\ variant = "generate_training_report"
    /\ DOMAIN results = {3, 7}
    /\ results[3].count = 2
    /\ results[3].critical = 1
    /\ results[3].warning = 1
    /\ results[7].count = 1
    /\ summary.athletes_flagged = 2
    /\ summary.categories_flagged = 2

WindowReadings(a, m) ==
    Cardinality({i \in 1..Len(df) :
        /\ df[i].Athlete_Name = a
        /\ df[i].vals[m] # NaN
        /\ \A j \in 1..Len(df) :
              df[j].Athlete_Name = a => df[i].Date >= df[j].Date - baseline_days})

\* the metric is not a column of the table, or the athlete has too few
\* readings of it for a baseline
DataGap(a, m) ==
    \/ m \notin columns
    \/ IF variant = "generate_training_report"
       THEN WindowReadings(a, m) < 3
       ELSE Readings(a, m) < 3 \/ SixtyPercent(Readings(a, m)) < 2

\* the rule evaluated on the athlete's own rows and the rule's own columns
OwnSeverity(a, c) ==
    LET rule == DECISION_RULES(variant)[c]
        r == EvaluateRule(variant, rule, SortedRows(a),
                          columns \cap MetricsOf(rule), baseline_days)
    IN IF RecordCount(a) >= MinRecords(variant) /\ r.all_flagged
       THEN r.worst_severity ELSE "none"

\* C13: a metric that is absent from the table, or whose baseline fails for
\* lack of data, leaves the athlete unflagged for the rule; no error is
\* raised, and at the end of the run every other (athlete, rule) has the
\* outcome its own rows give it.
C13_GapIsLocal ==
    /\ pc # "raised"
    /\ Finished =>
         \A a \in Names, c \in RuleIds :
           /\ (\E m \in MetricsOf(DECISION_RULES(variant)[c]) : DataGap(a, m))
                 => ~Flagged(a, c)
           /\ FlagSeverity(a, c) = OwnSeverity(a, c)

\* the first athlete lacks power readings and is flagged for asymmetry
\* only; the second athlete is flagged for power
C13_Witness ==
    /\ Finished
    /\ variant = "demo_report"
    /\ columns = {PowerMetric(variant), AsymmetryMetric(variant)}
    /\ RecordCount(TeamNames[1]) = SeriesLen
    /\ DataGap(TeamNames[1], PowerMetric(variant))
    /\ ~Flagged(TeamNames[1], 3)
    /\ Flagged(TeamNames[1], 7)
    /\ Flagged(TeamNames[2], 3)

\* a rule with an empty metric list, or an absolute rule without threshold
InvalidRule(rule) ==
    \/ rule.metrics = <<>>
    \/ rule.trend = "absolute" /\ "threshold" \notin DOMAIN rule

\* C14: a rule table with an invalid rule is rejected before any athlete is
\* evaluated: no athlete's rows are ever taken up under it, no flag of
\* severity normal is appended and no evaluation fails.
C14_InvalidRejected ==
    (\E c \in DOMAIN rules : InvalidRule(rules[c])) =>
      /\ locals = NoLocals
      /\ pc # "raised"
      /\ \A i \in 1..Len(category_athletes) :
            category_athletes[i].severity # "normal"
      /\ \A i \in 1..Len(flagged_categories) :
            flagged_categories[i].severity # "normal"

-----------------------------------------------------------------------------
(* Claims about the end-to-end scenarios *)

\* the values of the only column of the table, in file order
TableSeries == [i \in 1..Len(df) |-> df[i].vals[rules[1].metrics[1]]]

\* the check of the only metric on the table
ScenarioCheck ==
    check_metric(variant, rules[1], df, columns, rules[1].metrics[1])

\* thirty times the baseline mean of the decline, in the units of the claim
DeclineMean30 ==
    LET mu == mean(ScenarioCheck.baseline)
    IN [num |-> 30 * 70 * mu.den + 100 * mu.num, den |-> mu.den]

\* thirty times the deviation of the decline, in the units of the claim
DeclineDeviation30 ==
    LET d == MeanMinus(ScenarioCheck.baseline, ScenarioCheck.current)
    IN [num |-> 100 * d.num, den |-> d.den]

DeclineOutcome ==
    /\ Len(ScenarioCheck.baseline) = 6
    /\ AbsGt(MeanMinus(ScenarioCheck.baseline, ScenarioCheck.current),
             SEVERITY_THRESHOLDS.red,
             calculate_swc(ScenarioCheck.baseline))
    /\ FlagSeverity(RosterNames[1], 1) = "critical"

\* C15 as claimed: for the ten values falling from 100 to 70 the baseline
\* mean of the first 6 is 92.5 and the deviation 22.5 (30 times: 2775 and
\* 675), the deviation exceeds 2 * SWC and the athlete is flagged critical.
C15_DeclineAsClaimed ==
    (Finished /\ TableSeries = DeclineCoded) =>
      /\ DeclineMean30.num = 2775 * DeclineMean30.den
      /\ DeclineDeviation30.num = 675 * DeclineDeviation30.den
      /\ DeclineOutcome

\* C15 as amended: the baseline mean of the first 6 is 91 2/3 and the
\* deviation 21 2/3 (30 times: 2750 and 650), the deviation exceeds
\* 2 * SWC and the athlete is flagged critical.
C15_DeclineFlaggedCritical ==
    (Finished /\ TableSeries = DeclineCoded) =>
      /\ DeclineMean30.num = 2750 * DeclineMean30.den
      /\ DeclineDeviation30.num = 650 * DeclineDeviation30.den
      /\ DeclineOutcome

C15_Witness ==
    /\ Finished
    /\ variant = "demo_report"
    /\ TableSeries = DeclineCoded
    /\ ScenarioCheck.current = 0
    /\ FlagSeverity(RosterNames[1], 1) = "critical"

\* every value of the table lies within 100 +/- 2
WithinBand ==
    \A i \in 1..Len(df) : Abs(TableSeries[i] - 100) <= 2

\* C16: an athlete whose values all lie within 100 +/- 2 has a deviation
\* under 1 * SWC, the tier normal, and is never flagged for the
\* single-metric decrease rule.
C16_StableNeverFlagged ==
    (Finished /\ WithinBand) =>
      /\ ~Flagged(RosterNames[1], 1)
      /\ AbsLe(MeanMinus(ScenarioCheck.baseline, ScenarioCheck.current),
               SEVERITY_THRESHOLDS.yellow,
               calculate_swc(ScenarioCheck.baseline))

-----------------------------------------------------------------------------
(* Claims about the smallest worthwhile change *)

\* the swc the entry point computes for a baseline window
SwcUsed(v, baseline) ==
    CASE v = "generate_training_report" -> training_calculate_swc(baseline)
      [] v = Engine -> Engine_calculate_swc(baseline)
      [] OTHER -> calculate_swc(baseline)

\* n^3 times the population variance: the sum of (n * x - sum(x))^2
RECURSIVE SquaredDistances(_, _, _)
SquaredDistances(series, n, total) ==
    IF series = <<>> THEN 0
    ELSE (n * Head(series) - total) * (n * Head(series) - total)
           + SquaredDistances(Tail(series), n, total)

\* swc * swc = 0.04 * (population variance of the window)
IsPopulationSwc(swc, baseline) ==
    LET n == Len(baseline) IN
    swc.sq_num * 25 * n * n * n
        = SquaredDistances(baseline, n, Sum(baseline)) * swc.sq_den

\* C17: in every entry point the swc of a baseline window is 0.2 times the
\* population standard deviation (divisor n) of the window, so that the
\* training report and the dashboard engine compute the same swc as
\* demo_report for every window.
C17_PopulationSwc ==
    (Estimated /\ EstimateSucceeded) =>
        LET baseline == locals.check.baseline
            swc == SwcUsed(variant, baseline)
        IN
        /\ IsPopulationSwc(swc, baseline)
        /\ swc.sq_num * calculate_swc(baseline).sq_den
              = calculate_swc(baseline).sq_num * swc.sq_den

-----------------------------------------------------------------------------
(* Claims about the order of the evaluations *)

\* the triples of the (athlete, rule) pairs each evaluated on its own
OwnTriples ==
    {<<a, c, OwnSeverity(a, c)>> : a \in Names, c \in RuleIds}
        \ {<<a, c, "none">> : a \in Names, c \in RuleIds}

\* C18: the set of (athlete, rule, severity) flags does not depend on the
\* order of the evaluations: a run returns the triples of the pairs each
\* evaluated on its own, whatever the file order of the athletes, and the
\* rule-major traversal of generate_real_report and the athlete-major
\* traversal of generate_report_app return the same set on the same table.
C18_OrderIndependent ==
    Finished =>
      /\ Triples(Returned) = OwnTriples
      /\ run > 1 => Triples(Returned) = Triples(first)

\* both traversals have run on a table that lists the second athlete
\* first; the first athlete is flagged for power and for asymmetry, the
\* second for asymmetry only
C18_Witness ==
    /\ Finished
    /\ run > 1
    /\ variant = "generate_report_app"
    /\ df[1].Athlete_Name = TeamNames[2]
    /\ first.results # <<>>
    /\ Triples(Returned) = Triples(first)
    /\ \E s3, s7, t7 \in {"critical", "warning", "caution"} :
          Triples(Returned) = {<<TeamNames[1], 3, s3>>, <<TeamNames[1], 7, s7>>,
                               <<TeamNames[2], 7, t7>>}

-----------------------------------------------------------------------------
(* Claims about the metric loop as a state machine *)

\* an (athlete, rule) evaluation has been made: the athlete passed the gate
Evaluated ==
    /\ pc # "raised"
    /\ "cat_num" \in DOMAIN locals
    /\ locals.cat_num \in DOMAIN rules
    /\ Len(locals.athlete_data) >= MinRecords(variant)

\* the check of the i-th metric of the rule of the evaluation, on its own
CheckOf(i) ==
    CheckMetric(variant, rules[locals.cat_num], locals.athlete_data, columns,
                rules[locals.cat_num].metrics[i], baseline_days)

\* C19: an (athlete, rule) evaluation checks the metrics in the order of
\* the rule and makes at most len(metrics) checks; the metrics before the
\* last one checked all passed; the evaluation ends flagged only after
\* every metric was checked and passed, and unflagged at the first metric
\* that fails or is normal, after which no metric is checked.
C19_MetricStateMachine ==
    Evaluated =>
        LET metrics == rules[locals.cat_num].metrics
            checked == locals.loop.checked
        IN
        /\ checked \in 1..Len(metrics)
        /\ \A i \in 1..(checked - 1) : ~CheckOf(i).brk
        /\ locals.loop.all_flagged =>
              checked = Len(metrics) /\ ~CheckOf(checked).brk
        /\ ~locals.loop.all_flagged => CheckOf(checked).brk

\* the rule of three metrics: the first metric passes, the second is
\* normal, the third is never checked
C19_Witness ==
    /\ Evaluated
    /\ variant = "demo_report"
    /\ Len(rules[locals.cat_num].metrics) = 3
    /\ locals.loop.checked = 2
    /\ ~locals.loop.all_flagged
    /\ ~CheckOf(1).brk
    /\ CheckOf(2).why = "normal"
    /\ ~CheckOf(3).brk

-----------------------------------------------------------------------------
(* Claims about the inputs *)

\* no flag, list or result of an earlier run is left
Fresh ==
    /\ results = <<>>
    /\ athlete_results = <<>>
    /\ summary = <<>>
    /\ category_athletes = <<>>
    /\ flagged_categories = <<>>
    /\ flagged_athletes = {}

-----------------------------------------------------------------------------
(* Claims about the two classifier chains *)

\* green = normal, yellow = caution, orange = warning, red = critical
Corresponds(colour, tier) ==
    <<colour, tier>> \in {<<"green", "normal">>, <<"yellow", "caution">>,
                          <<"orange", "warning">>, <<"red", "critical">>}

\* C27: for every numeric deviation and every swc the ascending "<=" chain
\* of ForcePlateDecisionEngine.classify_severity and the descending ">"
\* chain of demo_report.classify_severity return corresponding tiers.
C27_ClassifiersAgree ==
    (Called /\ ~call.deviation.nan) =>
        /\ call.fn = "Engine_classify_severity" =>
              Corresponds(ret, classify_severity(call.deviation,
                                                 SwcOfInt(call.swc)))
        /\ call.fn = "classify_severity" =>
              Corresponds(Engine_classify_severity(call.deviation,
                                                   SwcOfInt(call.swc)), ret)

\* the engine classifies a deviation of exactly 1.5 * swc as yellow
C27_Witness ==
    /\ Called
    /\ call.fn = "Engine_classify_severity"
    /\ call.deviation = Rat(-3, 2)
    /\ call.swc = 1
    /\ ret = "yellow"
    /\ classify_severity(call.deviation, SwcOfInt(call.swc)) = "caution"

-----------------------------------------------------------------------------
(* Claims about the current value *)

\* the last reading of the metric in the athlete's date-ordered rows
LastReading(athlete_data, metric) ==
    LET readings == dropna(Column(athlete_data, metric))
    IN IF readings = <<>> THEN NaN ELSE readings[Len(readings)]

\* C24: in both baseline policies the current value that is compared
\* against the baseline is the last non-missing reading of the metric in
\* date order, also when the most recent test has no reading of it.
C24_CurrentIsLastReading ==
    (Estimated /\ EstimateSucceeded) =>
        locals.check.current
            = LastReading(locals.athlete_data, PowerMetric(variant))

\* C29: under the proportional split the current reading lies behind the
\* baseline window (the window is a proper prefix of the readings and the
\* current one is the last); under the rolling window with
\* baseline_days >= 0 the most recent test lies inside the window, and
\* when it has a reading, that reading is the current value and the last
\* value of the baseline.
C29_CurrentAndWindow ==
    Estimated =>
        LET c == locals.check
            rows == locals.athlete_data
            recent == rows[Len(rows)]
            value == recent.vals[PowerMetric(variant)]
        IN
        /\ (variant \in ProportionalVariants /\ EstimateSucceeded) =>
              /\ Len(c.baseline) < Len(c.metric_data)
              /\ c.baseline = SubSeq(c.metric_data, 1, Len(c.baseline))
              /\ c.current = c.metric_data[Len(c.metric_data)]
              /\ \A j \in 1..Len(c.baseline) : c.baseline[j] # c.current
        /\ (variant \in RollingVariants /\ baseline_days >= 0) =>
              /\ recent.Date >= c.cutoff
              /\ value # NaN =>
                    /\ c.baseline # <<>>
                    /\ c.baseline[Len(c.baseline)] = value
                    /\ EstimateSucceeded => c.current = value

\* the dashboard engine with a window of 180 days: the reading of the most
\* recent test is the current value and the last value of its own baseline
C29_Witness ==
    /\ Estimated
    /\ EstimateSucceeded
    /\ variant = Engine
    /\ baseline_days = default_baseline_days
    /\ Len(locals.check.baseline) >= 3
    /\ locals.check.current # NaN
    /\ locals.check.current
         = locals.check.baseline[Len(locals.check.baseline)]

-----------------------------------------------------------------------------
(* Claims about ForcePlateDecisionEngine.evaluate_athlete *)

\* the flags appended or returned so far
flags == flagged_categories

\* the baseline values the engine takes for a metric of the athlete
EngineBaseline(metric) ==
    Engine_check_metric(rules[1], locals.athlete_data, columns, metric,
                        baseline_days).baseline

\* C21: the deviation recorded in a flag is baseline_mean - current_value
\* for a "decrease" rule and current_value - baseline_mean for an
\* "increase" rule, so it is positive exactly when the current value is
\* worse than the baseline mean in the direction of the rule.
C21_DeviationSign ==
    \A i \in 1..Len(flags) :
        LET f == flags[i]
            trend == rules[f.category_num].trend
            b == EngineBaseline(f.metric)
            total == Sum(b)
            n == Len(b)
        IN
        f.current_value # NaN =>
          /\ ~f.deviation.nan
          /\ f.deviation.den > 0
          /\ trend = "decrease" =>
               /\ f.deviation.num * n = (total - n * f.current_value)
                                           * f.deviation.den
               /\ f.deviation.num > 0 <=> n * f.current_value < total
          /\ trend = "increase" =>
               /\ f.deviation.num * n = (n * f.current_value - total)
                                           * f.deviation.den
               /\ f.deviation.num > 0 <=> n * f.current_value > total

\* power rose from 8 to 12 under a "decrease" rule (negative deviation) and
\* asymmetry rose from 8 to 12 under an "increase" rule (positive deviation)
C21_Witness ==
    /\ Finished
    /\ variant = Engine
    /\ \E i, j \in 1..Len(flags) :
          /\ flags[i].category_num = 3
          /\ flags[i].current_value = 12
          /\ flags[i].deviation.num < 0
          /\ flags[j].category_num = 7
          /\ flags[j].current_value = 12
          /\ flags[j].deviation.num > 0

\* the engine's check of the k-th metric of a rule, on its own
EngineCheckOf(cat_num, k) ==
    Engine_check_metric(rules[cat_num], locals.athlete_data, columns,
                        rules[cat_num].metrics[k], baseline_days)

\* C22: a flag of evaluate_athlete exists only if every metric of the rule
\* is, on its own, yellow or worse for the athlete, and the severity of the
\* flag is the most severe of the severities of the rule's metrics.
C22_EngineAggregation ==
    \A i \in 1..Len(flags) :
        LET cat_num == flags[i].category_num
            positions == 1..Len(rules[cat_num].metrics)
        IN
        /\ \A k \in positions : ~EngineCheckOf(cat_num, k).brk
        /\ \A k \in positions :
              TierRank(EngineCheckOf(cat_num, k).severity)
                 <= TierRank(flags[i].severity)

\* the fixed priority of the categories, first to last
PriorityOrder == <<5, 7, 9, 1, 2, 3, 4, 6, 8>>

PlaceOf(cat_num) ==
    CHOOSE p \in 1..Len(PriorityOrder) : PriorityOrder[p] = cat_num

\* C23: the list that evaluate_athlete returns has at most one flag per
\* category and is ordered by severity (red, orange, yellow) and, among
\* flags of equal severity, by the category priority 5, 7, 9, 1, 2, 3, 4,
\* 6, 8.
C23_EngineFlagOrder ==
    (Finished /\ variant = Engine) =>
        \A i, j \in 1..Len(flags) :
            i < j =>
              /\ flags[i].category_num # flags[j].category_num
              /\ TierRank(flags[i].severity) >= TierRank(flags[j].severity)
              /\ flags[i].severity = flags[j].severity =>
                    PlaceOf(flags[i].category_num)
                       < PlaceOf(flags[j].category_num)

\* three red flags, appended as 3, 5, 7 and returned as 5, 7, 3
C23_Witness ==
    /\ Finished
    /\ variant = Engine
    /\ Len(flags) = 3
    /\ \A i \in 1..3 : flags[i].severity = "red"
    /\ flags[1].category_num = 5
    /\ flags[2].category_num = 7
    /\ flags[3].category_num = 3

\* the rule of the last pass of the category loop
EngineRule == rules[locals.cat_num]

\* a pass of the category loop of evaluate_athlete has been made
EngineEvaluated ==
    /\ variant = Engine
    /\ "cat_num" \in DOMAIN locals
    /\ locals.cat_num \in DOMAIN rules

C26_MissingCurrentNoFlag ==
    /\ \A i \in 1..Len(flags) : flags[i].current_value # NaN
    /\ EngineEvaluated =>
         \A k \in 1..Len(EngineRule.metrics) :
            LET c == EngineCheckOf(locals.cat_num, k) IN
            (c.why \in {"flag", "normal"} /\ c.current = NaN) =>
                /\ c.brk
                /\ Engine_classify_severity(
                      Engine_deviation(EngineRule, c.baseline, c.current),
                      Engine_calculate_swc(c.baseline)) = "green"

-----------------------------------------------------------------------------
(* Claims about the asymmetry rule *)

\* the threshold written in rule 7 of the entry point
AsymmetryThreshold ==
    IF "threshold" \in DOMAIN rules[7]
    THEN rules[7].threshold ELSE rules[7].threshold_value

\* the asymmetry readings of the athlete in date order
AsymmetryReadings(a) ==
    dropna(Column(SortedRows(a), AsymmetryMetric(variant)))

\* C25: in generate_training_report, as in demo_report, an athlete who
\* passes the record-count gate and has at least 4 asymmetry readings, the
\* most recent test among them, is flagged for category 7 if and only if
\* the current asymmetry value exceeds the threshold of 10 written in the
\* rule.
C25_AsymmetryThreshold ==
    (/\ Finished
     /\ variant \in {"demo_report", "generate_training_report"}
     /\ AsymmetryMetric(variant) \in columns) =>
        \A a \in Names :
            LET readings == AsymmetryReadings(a)
                rows == SortedRows(a)
                current == rows[Len(rows)].vals[AsymmetryMetric(variant)]
            IN
            (/\ RecordCount(a) >= MinRecords(variant)
             /\ Len(readings) >= 4
             /\ current # NaN) =>
                /\ AsymmetryThreshold = 10
                /\ Flagged(a, 7) <=> current > AsymmetryThreshold

-----------------------------------------------------------------------------
(* Claims about the trend direction *)

\* the rule with "decrease" and "increase" exchanged
Reversed(rule) ==
    [rule EXCEPT !.trend = CASE @ = "decrease" -> "increase"
                             [] @ = "increase" -> "decrease"
                             [] OTHER -> @]

====
